---- MODULE Spec2Model ----
(***************************************************************************)
(* A model of the elen language server (src/symbol.go, src/server.go):     *)
(* the scope table, the symbol builder, the position resolver, the type    *)
(* inferencer and the request loop with its hover / definition handlers.   *)
(*                                                                         *)
(* Go pointers to scopes are indices into a sequence of scopes (0 is the   *)
(* nil pointer); every other nil pointer or nil interface is Nil.  The     *)
(* lexer and parser are an external package: a document is modelled by the *)
(* syntax tree the parser returns for it, each identifier carrying the     *)
(* token (Line, Column, Literal) that the code reads.                      *)
(***************************************************************************)
EXTENDS Integers, Sequences, FiniteSets, TLC

VARIABLES
    scopes,     \* scope-table run: the scopes allocated so far
    lastOp,     \* scope-table run: the last operation and what it returned
    program,    \* builder run: the statement sequence handed to BuildSymbols
    table,      \* builder run: the scopes BuildSymbols left behind (<<>> before the call)
    expr,       \* inference run: the expression handed to inferExprType
    inferred,   \* inference run: what inferExprType returned (Pending before the call)
    inferScopes,\* inference run: the scope table the call was given
    documents,  \* Server.documents: URI -> text (0 when absent or "")
    pc,         \* Server.Run: "read" (in readMessage) or "handle" (in handleMessage)
    req,        \* the message last read
    out,        \* what was written to the client since that message was read
    crashed,    \* the process died on an unrecovered panic
    local,      \* the locals ident and sym of the handler that ran last
    latest      \* server run, history: per URI the text of the last notification read

vars == <<scopes, lastOp, program, table, expr, inferred, inferScopes,
          documents, pc, req, out, crashed, local, latest>>

scopeVars == <<scopes, lastOp>>
buildVars == <<program, table>>
inferVars == <<expr, inferred, inferScopes>>
serverVars == <<documents, pc, req, out, crashed, local, latest>>

Nil == [k |-> "nil"]

(***************************************************************************)
(* Bounds of the model.                                                    *)
(***************************************************************************)
MaxScopes == 3
MaxStmts == 2
MaxLine == 3
MaxChar == 19
MaxDepth == 1
MaxElems == 3

(***************************************************************************)
(* symbol.go: SymbolKind, Symbol, Scope                                    *)
(***************************************************************************)
SymVar == "SymVar"
SymConst == "SymConst"
SymFunc == "SymFunc"
SymParam == "SymParam"
SymType == "SymType"
SymUserType == "SymUserType"
SymStructField == "SymStructField"

Symbol(kind, name, ident, type, value) ==
    [Kind |-> kind, Name |-> name, Ident |-> ident, Type |-> type, Value |-> value]

\* NewScope: a scope with the given parent and an empty map.  The caller
\* holds the pointer: Alloc appends the scope and its index is the pointer.
NewScope(parent) == [Parent |-> parent, Symbols |-> <<>>]

Alloc(h, parent) == Append(h, NewScope(parent))

\* Scope.Define on scope s of h: panics when the name exists in s.Symbols,
\* leaving the map as it was; otherwise stores the symbol under its name.
DefineOverwrites(h, s, sym) ==
    [heap |-> [h EXCEPT ![s].Symbols = (sym.Name :> sym) @@ @], panic |-> FALSE]

DefineChecksChain(h, s, sym) ==
    IF \E t \in 1..Len(h) : sym.Name \in DOMAIN h[t].Symbols
    THEN [heap |-> h, panic |-> TRUE]
    ELSE [heap |-> [h EXCEPT ![s].Symbols = (sym.Name :> sym) @@ @], panic |-> FALSE]

Define(h, s, sym) ==
    IF sym.Name \in DOMAIN h[s].Symbols
    THEN [heap |-> h, panic |-> TRUE]
    ELSE [heap |-> [h EXCEPT ![s].Symbols = (sym.Name :> sym) @@ @], panic |-> FALSE]

\* Scope.Resolve: walk from s up the Parent pointers, first map that holds
\* the name wins; nil when the walk runs off the root.
RECURSIVE ResolveOutermost(_, _, _)
ResolveOutermost(h, s, name) ==
    IF s = 0 THEN Nil
    ELSE LET up == ResolveOutermost(h, h[s].Parent, name)
         IN  IF up # Nil THEN up
             ELSE IF name \in DOMAIN h[s].Symbols THEN h[s].Symbols[name] ELSE Nil

RECURSIVE Resolve(_, _, _)
Resolve(h, s, name) ==
    IF s = 0 THEN Nil
    ELSE IF name \in DOMAIN h[s].Symbols THEN h[s].Symbols[name]
    ELSE Resolve(h, h[s].Parent, name)

(***************************************************************************)
(* parser.TypeNode values as the code reads them: IdentType{Name},         *)
(* ArrayType{Elem}, StructType{Fields}.                                    *)
(***************************************************************************)
IdentType(name) == [k |-> "IdentType", Name |-> name]
ArrayType(elem) == [k |-> "ArrayType", Elem |-> elem]
StructType(fields) == [k |-> "StructType", Fields |-> fields]

(***************************************************************************)
(* The scope-table run: NewScope, Define and Resolve called in any order   *)
(* on the scopes allocated so far.                                         *)
(***************************************************************************)
ScopeNames == {"x", "y"}

\* The symbols Define is called with: x as an int variable or as a float
\* constant.  y is resolved and never defined.
PlaySymbols ==
    {Symbol(SymVar, "x", Nil, IdentType("int"), Nil),
     Symbol(SymConst, "x", Nil, IdentType("float"), Nil)}

NoOp == [op |-> "none", scope |-> 0, name |-> "", sym |-> Nil, panic |-> FALSE,
         result |-> Nil]

NewScopeOp ==
    \E p \in 0..Len(scopes) :
        /\ Len(scopes) < MaxScopes
        /\ scopes' = Alloc(scopes, p)
        /\ lastOp' = [NoOp EXCEPT !.op = "NewScope", !.scope = Len(scopes) + 1]
        /\ UNCHANGED <<buildVars, inferVars, serverVars>>

DefineOp ==
    \E s \in 1..Len(scopes), sym \in PlaySymbols :
        LET r == Define(scopes, s, sym)
        IN  /\ scopes' = r.heap
            /\ lastOp' = [NoOp EXCEPT !.op = "Define", !.scope = s, !.name = sym.Name,
                                      !.sym = sym, !.panic = r.panic]
            /\ UNCHANGED <<buildVars, inferVars, serverVars>>

ResolveOp ==
    \E s \in 1..Len(scopes), n \in ScopeNames :
        /\ lastOp' = [NoOp EXCEPT !.op = "Resolve", !.scope = s, !.name = n,
                                  !.result = Resolve(scopes, s, n)]
        /\ UNCHANGED <<scopes, buildVars, inferVars, serverVars>>

NextScope == NewScopeOp \/ DefineOp \/ ResolveOp

(***************************************************************************)
(* The syntax tree, with the fields the code reads.  Every node is a       *)
(* record tagged k with its Go type; a nil pointer or interface is Nil, a  *)
(* nil slice is the empty sequence.                                        *)
(***************************************************************************)
Token(line, column, literal) == [Line |-> line, Column |-> column, Literal |-> literal]

Identifier(tok, value) == [k |-> "Identifier", Token |-> tok, Value |-> value]

\* The identifier whose text begins at zero-based character ch of one-based
\* line: its token's Column is the one-based column just past the text, the
\* convention posInsideTok undoes.
At(name, line, ch) == Identifier(Token(line, ch + Len(name) + 1, name), name)

\* Identifier.Pos() of the parser package: the line and column of the node's
\* token, the declaration site the range of a definition is built from.
Pos(n) == <<n.Token.Line, n.Token.Column>>

IntLiteral(v) == [k |-> "IntLiteral", Value |-> v]
FloatLiteral(v) == [k |-> "FloatLiteral", Value |-> v]
StringLiteral(v) == [k |-> "StringLiteral", Value |-> v]
BoolLiteral(v) == [k |-> "BoolLiteral", Value |-> v]
ArrayLiteral(elements) == [k |-> "ArrayLiteral", Elements |-> elements]
AnonymousStructLiteral == [k |-> "AnonymousStructLiteral"]
StructLiteral(typeName, fields) ==
    [k |-> "StructLiteral", TypeName |-> typeName, Fields |-> fields]
InfixExpression(left, op, right) ==
    [k |-> "InfixExpression", Left |-> left, Operator |-> op, Right |-> right]
PrefixExpression(op, right) == [k |-> "PrefixExpression", Operator |-> op, Right |-> right]
IndexExpression(left, index) == [k |-> "IndexExpression", Left |-> left, Index |-> index]
MemberExpression(left, field) == [k |-> "MemberExpression", Left |-> left, Field |-> field]
FuncCall(name, args) == [k |-> "FuncCall", Name |-> name, Args |-> args]

VarStatement(name, type, value) ==
    [k |-> "VarStatement", Name |-> name, Type |-> type, Value |-> value]
VarStatementNoKeyword(name, value) ==
    [k |-> "VarStatementNoKeyword", Name |-> name, Value |-> value]
ConstStatement(name, type, value) ==
    [k |-> "ConstStatement", Name |-> name, Type |-> type, Value |-> value]
MultiVarStatement(names, type, value) ==
    [k |-> "MultiVarStatement", Names |-> names, Type |-> type, Value |-> value]
MultiVarStatementNoKeyword(names, value) ==
    [k |-> "MultiVarStatementNoKeyword", Names |-> names, Value |-> value]
MultiConstStatement(names, type, value) ==
    [k |-> "MultiConstStatement", Names |-> names, Type |-> type, Value |-> value]
Param(name, type) == [k |-> "Param", Name |-> name, Type |-> type]
FuncStatement(name, params, body) ==
    [k |-> "FuncStatement", Name |-> name, Params |-> params, Body |-> body]
TypeStatement(tok, name, type) ==
    [k |-> "TypeStatement", Token |-> tok, Name |-> name, Type |-> type]
ForStatement(init, condition, post, body) ==
    [k |-> "ForStatement", Init |-> init, Condition |-> condition, Post |-> post,
     Body |-> body]
WhileStatement(condition, body) ==
    [k |-> "WhileStatement", Condition |-> condition, Body |-> body]
IfStatement(condition, consequence, alternative) ==
    [k |-> "IfStatement", Condition |-> condition, Consequence |-> consequence,
     Alternative |-> alternative]
ExpressionStatement(expression) == [k |-> "ExpressionStatement", Expression |-> expression]
AssignmentStatement(name, value) ==
    [k |-> "AssignmentStatement", Name |-> name, Value |-> value]
MultiAssignmentStatement(names, value) ==
    [k |-> "MultiAssignmentStatement", Names |-> names, Value |-> value]
IndexAssignmentStatement(left, index, value) ==
    [k |-> "IndexAssignmentStatement", Left |-> left, Index |-> index, Value |-> value]
SpawnStatement(body) == [k |-> "SpawnStatement", Body |-> body]

(***************************************************************************)
(* symbol.go: BuildSymbols and buildInScope.                               *)
(*                                                                         *)
(* A panic unwinds to the deferred recover of the buildInScope call it was *)
(* raised in, and that call then returns normally: the statements left in  *)
(* its list are skipped, what was defined stays, and the caller goes on.   *)
(* The operators for one statement return the scopes and whether they      *)
(* panicked; buildInScope returns the scopes only.                         *)
(*                                                                         *)
(* Node, Role and Recovered are ghost fields: the statement a scope was    *)
(* opened for, which of its blocks, and whether the buildInScope call on   *)
(* the scope recovered a panic (the "buildInScope panic" log line).  No    *)
(* operation reads them.                                                   *)
(***************************************************************************)
Ok(h) == [heap |-> h, panic |-> FALSE]
Panic(h) == [heap |-> h, panic |-> TRUE]

Open(h, parent, node, role) ==
    [Alloc(h, parent) EXCEPT
        ![Len(h) + 1] = @ @@ [Node |-> node, Role |-> role, Recovered |-> FALSE]]

\* The Define calls of one statement, in order, stopping at the first panic.
RECURSIVE defineAll(_, _, _, _)
defineAll(h, scope, syms, i) ==
    IF i > Len(syms) THEN Ok(h)
    ELSE LET r == Define(h, scope, syms[i])
         IN  IF r.panic THEN r ELSE defineAll(r.heap, scope, syms, i + 1)

RECURSIVE buildInScope(_, _, _)
RECURSIVE buildStmts(_, _, _, _)

buildMulti(h, scope, s, kind, type) ==
    IF s.Names = <<>> THEN Panic(h)
    ELSE defineAll(h, scope,
                   [i \in 1..Len(s.Names) |->
                       Symbol(kind, s.Names[i].Value, s.Names[i], type, s.Value)], 1)

buildFunc(h, scope, s) ==
    IF s.Name = Nil THEN Panic(h)
    ELSE LET d == Define(h, scope, Symbol(SymFunc, s.Name.Value, s.Name, Nil, Nil))
         IN  IF d.panic THEN d
             ELSE LET h1 == Open(d.heap, scope, s, "Func")
                      fnScope == Len(h1)
                      p == defineAll(h1, fnScope,
                               [i \in 1..Len(s.Params) |->
                                   Symbol(SymParam, s.Params[i].Name.Value,
                                          s.Params[i].Name, s.Params[i].Type, Nil)], 1)
                  IN  IF p.panic THEN p
                      ELSE Ok(buildInScope(p.heap, fnScope, s.Body))

\* The synthesized type name of a struct: "struct {\n" field names "}".
RECURSIVE fieldNames(_, _)
fieldNames(fields, i) ==
    IF i > Len(fields) THEN "" ELSE fields[i].Name.Value \o "\n" \o fieldNames(fields, i + 1)

buildType(h, scope, s) ==
    IF s.Name = Nil THEN Panic(h)
    ELSE IF s.Type = Nil \/ s.Type.k \notin {"IdentType", "StructType"} THEN Panic(h)
    ELSE LET typeName == IF s.Type.k = "IdentType" THEN s.Type.Name
                         ELSE "struct {\n" \o fieldNames(s.Type.Fields, 1) \o "}"
         IN  Define(h, scope, Symbol(SymUserType, s.Name.Value, s.Name,
                                     IdentType(typeName), Nil))

buildForShared(h, scope, s) ==
    LET h1 == Open(h, scope, s, "For")
        loopScope == Len(h1)
        h2 == IF s.Init # Nil THEN buildInScope(h1, scope, <<s.Init>>) ELSE h1
    IN  Ok(buildInScope(h2, loopScope, s.Body))

buildFor(h, scope, s) ==
    LET h1 == Open(h, scope, s, "For")
        loopScope == Len(h1)
        h2 == IF s.Init # Nil THEN buildInScope(h1, loopScope, <<s.Init>>) ELSE h1
    IN  Ok(buildInScope(h2, loopScope, s.Body))

buildWhile(h, scope, s) ==
    LET h1 == Open(h, scope, s, "While")
    IN  Ok(buildInScope(h1, Len(h1), s.Body))

buildIfOneScope(h, scope, s) ==
    LET h1 == Open(h, scope, s, "Consequence")
        h2 == buildInScope(h1, Len(h1), s.Consequence)
    IN  IF s.Alternative # <<>>
        THEN Ok(buildInScope(h2, Len(h1), s.Alternative))
        ELSE Ok(h2)

buildIf(h, scope, s) ==
    LET h1 == Open(h, scope, s, "Consequence")
        h2 == buildInScope(h1, Len(h1), s.Consequence)
    IN  IF s.Alternative # <<>>
        THEN LET h3 == Open(h2, scope, s, "Alternative")
             IN  Ok(buildInScope(h3, Len(h3), s.Alternative))
        ELSE Ok(h2)

\* One iteration of the statement loop: the type switch.
buildStmt(h, scope, s) ==
    CASE s.k = "VarStatement" ->
            IF s.Name = Nil THEN Panic(h)
            ELSE Define(h, scope, Symbol(SymVar, s.Name.Value, s.Name, s.Type, s.Value))
      [] s.k = "VarStatementNoKeyword" ->
            IF s.Name = Nil THEN Panic(h)
            ELSE Define(h, scope, Symbol(SymVar, s.Name.Value, s.Name, Nil, s.Value))
      [] s.k = "ConstStatement" ->
            IF s.Name = Nil THEN Panic(h)
            ELSE Define(h, scope, Symbol(SymConst, s.Name.Value, s.Name, s.Type, s.Value))
      [] s.k = "MultiVarStatement" -> buildMulti(h, scope, s, SymVar, s.Type)
      [] s.k = "MultiVarStatementNoKeyword" -> buildMulti(h, scope, s, SymVar, Nil)
      [] s.k = "MultiConstStatement" -> buildMulti(h, scope, s, SymConst, s.Type)
      [] s.k = "FuncStatement" -> buildFunc(h, scope, s)
      [] s.k = "TypeStatement" -> buildType(h, scope, s)
      [] s.k = "ForStatement" -> buildFor(h, scope, s)
      [] s.k = "WhileStatement" -> buildWhile(h, scope, s)
      [] s.k = "IfStatement" -> buildIf(h, scope, s)
      [] OTHER -> Ok(h)

buildStmtsGoesOn(h, scope, stmts, i) ==
    IF i > Len(stmts) THEN h
    ELSE IF stmts[i] = Nil THEN buildStmts(h, scope, stmts, i + 1)
    ELSE LET r == buildStmt(h, scope, stmts[i])
         IN  buildStmts(IF r.panic THEN [r.heap EXCEPT ![scope].Recovered = TRUE]
                        ELSE r.heap,
                        scope, stmts, i + 1)

\* The statement loop from statement i on; a nil statement is skipped.
buildStmts(h, scope, stmts, i) ==
    IF i > Len(stmts) THEN h
    ELSE IF stmts[i] = Nil THEN buildStmts(h, scope, stmts, i + 1)
    ELSE LET r == buildStmt(h, scope, stmts[i])
         IN  IF r.panic THEN [r.heap EXCEPT ![scope].Recovered = TRUE]
             ELSE buildStmts(r.heap, scope, stmts, i + 1)

buildInScope(h, scope, stmts) == buildStmts(h, scope, stmts, 1)

BuiltinTypes == <<"int", "float", "string", "bool", "arr">>

\* BuildSymbols: the root scope is scope 1 of the result.
BuildSymbolsBuiltinsLast(stmts) ==
    LET root == Open(<<>>, 0, Nil, "Root")
        h == buildInScope(root, 1, stmts)
    IN  defineAll(h, 1,
                  [i \in 1..Len(BuiltinTypes) |->
                      Symbol(SymType, BuiltinTypes[i], Nil, Nil, Nil)], 1).heap

BuildSymbols(stmts) ==
    LET root == Open(<<>>, 0, Nil, "Root")
        b == defineAll(root, 1,
                 [i \in 1..Len(BuiltinTypes) |->
                     Symbol(SymType, BuiltinTypes[i], Nil, Nil, Nil)], 1)
    IN  buildInScope(b.heap, 1, stmts)

(***************************************************************************)
(* The statement sequences BuildSymbols is run on.  A top-level statement  *)
(* i starts on line 3i - 2: its header there, the first nested block on    *)
(* the next line and the second on the line after, so every identifier     *)
(* token has a place of its own.  c is the character the statement starts  *)
(* at.                                                                     *)
(***************************************************************************)
\* egg n int
EggDecl(n, line, c) == VarStatement(At(n, line, c + 4), IdentType("int"), Nil)
\* n := 1
ShortDecl(n, line, c) == VarStatementNoKeyword(At(n, line, c), IntLiteral("1"))
\* rock n = 2.5
RockDecl(n, line, c) == ConstStatement(At(n, line, c + 5), Nil, FloatLiteral("2.5"))
\* the names a, b of  egg a, b ... / rock a, b ... / a, b ...  from character c on
TwoNames(a, b, line, c) == <<At(a, line, c), At(b, line, c + Len(a) + 2)>>
\* fun f(p int, q int) {
ParamsAt(names, line, c) ==
    [i \in 1..Len(names) |-> Param(At(names[i], line, c + 7 * (i - 1)), IdentType("int"))]
FunDecl(f, params, body, line, c) ==
    FuncStatement(At(f, line, c + 4), ParamsAt(params, line, c + 5 + Len(f)), body)
\* type T int   /   type T struct { a int; b int }
TypeAlias(n, line, c) ==
    TypeStatement(Token(line, c + 5, "type"), At(n, line, c + 5), IdentType("int"))
TypeStruct(n, line, c) ==
    TypeStatement(Token(line, c + 5, "type"), At(n, line, c + 5),
                  StructType(<<[Name |-> At("a", line, c + 16)],
                               [Name |-> At("b", line, c + 23)]>>))

DeclStmts(line) ==
    <<EggDecl("x", line, 0), EggDecl("y", line, 0), EggDecl("int", line, 0),
      ShortDecl("x", line, 0), RockDecl("y", line, 0),
      MultiVarStatement(TwoNames("x", "y", line, 4), IdentType("int"), Nil),
      MultiVarStatementNoKeyword(TwoNames("y", "x", line, 0), IntLiteral("1")),
      MultiConstStatement(TwoNames("x", "x", line, 5), Nil, IntLiteral("1")),
      TypeAlias("x", line, 0), TypeStruct("T", line, 0),
      AssignmentStatement(At("x", line, 0), IntLiteral("1"))>>

\* Every pairing of a first and a second part.
Pairs(first, second, Make(_, _)) ==
    [i \in 1..(Len(first) * Len(second)) |->
        Make(first[((i - 1) \div Len(second)) + 1], second[((i - 1) % Len(second)) + 1])]

\* if true { ... } else { ... }
MakeIf(cons, alt) == IfStatement(BoolLiteral("true"), cons, alt)
IfStmts(line) ==
    Pairs(<< <<EggDecl("x", line + 1, 2)>>,
             <<EggDecl("x", line + 1, 2), EggDecl("x", line + 1, 14),
               EggDecl("y", line + 1, 26)>> >>,
          << <<>>, <<EggDecl("x", line + 2, 2)>>, <<EggDecl("y", line + 2, 2)>> >>,
          MakeIf)
    \o <<MakeIf(<<EggDecl("int", line + 1, 2)>>, <<>>)>>

\* for egg x int; true { ... }
MakeFor(init, body) == ForStatement(init, BoolLiteral("true"), Nil, body)
ForStmts(line) ==
    Pairs(<<Nil, EggDecl("x", line, 4)>>,
          << <<EggDecl("x", line + 1, 2)>>, <<EggDecl("y", line + 1, 2)>> >>,
          MakeFor)

\* while true { ... }
WhileStmts(line) ==
    <<WhileStatement(BoolLiteral("true"), <<EggDecl("x", line + 1, 2)>>),
      WhileStatement(BoolLiteral("true"), <<EggDecl("int", line + 1, 2)>>)>>

\* fun f(x int, x int) { ... }
FunStmts(line) ==
    LET MakeFun(params, body) == FunDecl("f", params, body, line, 0)
    IN  Pairs(<< <<>>, <<"x">>, <<"x", "x">> >>,
              << <<>>, <<EggDecl("x", line + 1, 2)>> >>,
              MakeFun)
        \o <<FunDecl("y", <<"y", "x">>, <<>>, line, 0)>>

\* fun f() { if true { egg x int } else { egg y int } }
\* for egg x int; true { while true { egg x int } }
NestedStmts(line) ==
    <<FunDecl("f", <<>>,
              <<MakeIf(<<EggDecl("x", line + 1, 4)>>, <<EggDecl("y", line + 2, 4)>>)>>,
              line, 0),
      MakeFor(EggDecl("x", line, 4),
              <<WhileStatement(BoolLiteral("true"), <<EggDecl("x", line + 1, 4)>>)>>)>>

Statements(line) ==
    DeclStmts(line) \o IfStmts(line) \o ForStmts(line) \o WhileStmts(line)
    \o FunStmts(line) \o NestedStmts(line)

\* The program made of the chosen statements, statement i on line 3i - 2.
ProgramOf(choice) ==
    [i \in 1..Len(choice) |-> Statements(3 * i - 2)[choice[i]]]

(***************************************************************************)
(* The builder run: BuildSymbols called on one statement sequence.         *)
(***************************************************************************)
Build ==
    /\ table = <<>>
    /\ table' = BuildSymbols(program)
    /\ UNCHANGED <<program, scopeVars, inferVars, serverVars>>

NextBuild == Build

(***************************************************************************)
(* server.go: the position resolver.                                       *)
(***************************************************************************)
Position(line, character) == [Line |-> line, Character |-> character]

\* posInsideTok: the token's zero-based span is [Column - 1 - len, Column - 1)
\* on line Line - 1.
posInsideTok(tok, pos) ==
    LET line == tok.Line - 1
        endCol == tok.Column - 1
        startCol == endCol - Len(tok.Literal)
    IN  IF pos.Line # line THEN FALSE
        ELSE pos.Character >= startCol /\ pos.Character < endCol

RECURSIVE walkForIdent(_, _)
RECURSIVE walkEach(_, _, _)

\* for _, x := range nodes { if res := walkForIdent(x, pos); res != nil { return res } }
\* from element i on; Nil when the loop runs out.
walkEach(nodes, pos, i) ==
    IF i > Len(nodes) THEN Nil
    ELSE LET res == walkForIdent(nodes[i], pos)
         IN  IF res # Nil THEN res ELSE walkEach(nodes, pos, i + 1)

\* The type switch of walkForIdent.  A node type without a case (literals,
\* ArrayLiteral, Param, the type nodes, VarStatementNoKeyword,
\* MultiVarStatementNoKeyword, ...) falls through to the final return nil.
walkForIdent(n, pos) ==
    IF n = Nil THEN Nil
    ELSE CASE n.k = "Identifier" ->
                IF posInsideTok(n.Token, pos) THEN n ELSE Nil
           [] n.k = "ExpressionStatement" -> walkForIdent(n.Expression, pos)
           [] n.k = "TypeStatement" ->
                IF n.Type # Nil /\ n.Type.k = "IdentType"
                THEN Identifier(n.Token, n.Type.Name)
                ELSE IF n.Type # Nil /\ n.Type.k = "StructType"
                THEN Identifier(n.Token,
                                "struct {\n" \o fieldNames(n.Type.Fields, 1) \o "}")
                ELSE Identifier(n.Token, "unknown")
           [] n.k \in {"VarStatement", "ConstStatement"} ->
                walkEach(<<n.Name, n.Type, n.Value>>, pos, 1)
           [] n.k \in {"MultiVarStatement", "MultiConstStatement"} ->
                walkEach(n.Names \o <<n.Type, n.Value>>, pos, 1)
           [] n.k = "AssignmentStatement" -> walkEach(<<n.Name, n.Value>>, pos, 1)
           [] n.k = "MultiAssignmentStatement" ->
                walkEach(n.Names \o <<n.Value>>, pos, 1)
           [] n.k = "InfixExpression" -> walkEach(<<n.Left, n.Right>>, pos, 1)
           [] n.k = "IndexAssignmentStatement" ->
                walkEach(<<n.Left, n.Index, n.Value>>, pos, 1)
           [] n.k = "IndexExpression" -> walkEach(<<n.Left, n.Index>>, pos, 1)
           [] n.k = "PrefixExpression" -> walkForIdent(n.Right, pos)
           [] n.k = "MemberExpression" -> walkEach(<<n.Left, n.Field>>, pos, 1)
           [] n.k = "FuncStatement" ->
                walkEach(<<n.Name>> \o n.Params \o n.Body, pos, 1)
           [] n.k = "SpawnStatement" -> walkEach(n.Body, pos, 1)
           [] n.k = "FuncCall" -> walkEach(<<n.Name>> \o n.Args, pos, 1)
           [] n.k = "StructLiteral" -> walkEach(<<n.TypeName>> \o n.Fields, pos, 1)
           [] n.k = "IfStatement" ->
                walkEach(<<n.Condition>> \o n.Consequence \o n.Alternative, pos, 1)
           [] n.k = "ForStatement" ->
                walkEach(<<n.Init, n.Condition, n.Post>> \o n.Body, pos, 1)
           [] n.k = "WhileStatement" -> walkEach(<<n.Condition>> \o n.Body, pos, 1)
           [] OTHER -> Nil

findIdentAt(statements, pos) == walkEach(statements, pos, 1)

(***************************************************************************)
(* server.go: the type inferencer.                                         *)
(***************************************************************************)
RECURSIVE sameTypeNode(_, _)
sameTypeNode(a, b) ==
    CASE a.k = "IdentType" -> b.k = "IdentType" /\ a.Name = b.Name
      [] a.k = "ArrayType" -> b.k = "ArrayType" /\ sameTypeNode(a.Elem, b.Elem)
      [] OTHER -> FALSE

isIdent(t, name) == t.k = "IdentType" /\ t.Name = name

RECURSIVE inferExprType(_, _, _)
RECURSIVE inferRest(_, _, _, _, _)

inferRestUnverified(h, scope, elements, elemType, i) == ArrayType(elemType)

\* The loop over e.Elements[1:]: nil at the first element whose type is
\* nil or differs from elemType, ArrayType{elemType} when the loop runs out.
inferRest(h, scope, elements, elemType, i) ==
    IF i > Len(elements) THEN ArrayType(elemType)
    ELSE LET t == inferExprType(h, scope, elements[i])
         IN  IF t = Nil \/ ~sameTypeNode(elemType, t) THEN Nil
             ELSE inferRest(h, scope, elements, elemType, i + 1)

inferInfixLeftWins(h, scope, e) ==
    LET left == inferExprType(h, scope, e.Left)
        right == inferExprType(h, scope, e.Right)
    IN  IF left = Nil \/ right = Nil THEN Nil ELSE left

inferInfix(h, scope, e) ==
    LET left == inferExprType(h, scope, e.Left)
        right == inferExprType(h, scope, e.Right)
    IN  IF left = Nil \/ right = Nil THEN Nil
        ELSE IF sameTypeNode(left, right) THEN left
        ELSE IF \/ isIdent(left, "int") /\ isIdent(right, "float")
                \/ isIdent(left, "float") /\ isIdent(right, "int")
        THEN IdentType("float")
        ELSE Nil

inferExprType(h, scope, e) ==
    CASE e.k = "IntLiteral" -> IdentType("int")
      [] e.k = "FloatLiteral" -> IdentType("float")
      [] e.k = "StringLiteral" -> IdentType("string")
      [] e.k = "BoolLiteral" -> IdentType("bool")
      [] e.k = "ArrayLiteral" ->
            IF Len(e.Elements) = 0 THEN Nil
            ELSE LET elemType == inferExprType(h, scope, e.Elements[1])
                 IN  IF elemType = Nil THEN Nil
                     ELSE inferRest(h, scope, e.Elements, elemType, 2)
      [] e.k = "AnonymousStructLiteral" -> IdentType("struct")
      [] e.k = "StructLiteral" -> IdentType(e.TypeName.Value)
      [] e.k = "InfixExpression" -> inferInfix(h, scope, e)
      [] e.k = "PrefixExpression" -> inferExprType(h, scope, e.Right)
      [] e.k = "Identifier" ->
            LET sym == Resolve(h, scope, e.Value)
            IN  IF sym = Nil THEN Nil ELSE sym.Type
      [] OTHER -> Nil

(***************************************************************************)
(* The inference run: inferExprType applied once, in the root scope of a   *)
(* built scope table, to an expression nested up to MaxDepth deep.         *)
(***************************************************************************)
\* 1: egg u
\* 2: egg xs []int
\* 3: egg ys []float
\* 4: egg xss [][]int
\* 5: egg p struct { a int }
TypingDoc ==
    <<VarStatement(At("u", 1, 4), Nil, Nil),
      VarStatement(At("xs", 2, 4), ArrayType(IdentType("int")), Nil),
      VarStatement(At("ys", 3, 4), ArrayType(IdentType("float")), Nil),
      VarStatement(At("xss", 4, 4), ArrayType(ArrayType(IdentType("int"))), Nil),
      VarStatement(At("p", 5, 4),
                   StructType(<<Param(At("a", 5, 15), IdentType("int"))>>), Nil)>>

Operands ==
    {IntLiteral("1"), IntLiteral("2"), FloatLiteral("2.5"), StringLiteral("a"),
     At("u", 6, 0), At("nope", 6, 0), At("xs", 6, 0), At("ys", 6, 0),
     At("xss", 6, 0), At("p", 6, 0)}

Operators == {"+", "<"}

RECURSIVE Exprs(_)
Exprs(depth) ==
    IF depth = 0 THEN Operands
    ELSE Exprs(depth - 1)
         \cup {InfixExpression(l, op, r) :
                  l \in Exprs(depth - 1), op \in Operators, r \in Exprs(depth - 1)}

\* What stands between the brackets of an array literal.
Elements ==
    {IntLiteral("1"), IntLiteral("2"), IntLiteral("3"), FloatLiteral("2.5"),
     StringLiteral("a"), At("u", 6, 0), At("xs", 6, 0), At("p", 6, 0),
     ArrayLiteral(<<IntLiteral("1")>>), ArrayLiteral(<<FloatLiteral("2.5")>>),
     ArrayLiteral(<<>>),
     InfixExpression(IntLiteral("1"), "+", FloatLiteral("2.5"))}

\* inferred before inferExprType has returned.
Pending == [k |-> "pending"]

Infer ==
    /\ inferred = Pending
    /\ inferred' = inferExprType(inferScopes, 1, expr)
    /\ UNCHANGED <<expr, inferScopes, scopeVars, buildVars, serverVars>>

NextInfer == Infer

(***************************************************************************)
(* The documents the editor sends.  A text is a number: 0 is the empty     *)
(* text, i > 0 the text whose syntax tree is Docs[i].                      *)
(***************************************************************************)
\* 1: egg n = 1
\* 2: for egg i = 0; i < n {
\* 3:   n = i }
\* 4: n = i
LoopDoc ==
    <<VarStatement(At("n", 1, 4), Nil, IntLiteral("1")),
      ForStatement(VarStatement(At("i", 2, 8), Nil, IntLiteral("0")),
                   InfixExpression(At("i", 2, 15), "<", At("n", 2, 19)), Nil,
                   <<AssignmentStatement(At("n", 3, 2), At("i", 3, 6))>>),
      AssignmentStatement(At("n", 4, 0), At("i", 4, 4))>>

\* 1: egg a = 1
\* 2: egg count int
\* 3: egg a = 2.5
\* 4: egg c = count
DupDoc ==
    <<VarStatement(At("a", 1, 4), Nil, IntLiteral("1")),
      VarStatement(At("count", 2, 4), IdentType("int"), Nil),
      VarStatement(At("a", 3, 4), Nil, FloatLiteral("2.5")),
      VarStatement(At("c", 4, 4), Nil, At("count", 4, 8))>>

\* 1: fun f(p int) {
\* 2:   q := p + 1 }
\* 3: rock r = f(1.5) + 1
\* 4: type T int
FunDoc ==
    <<FuncStatement(At("f", 1, 4), <<Param(At("p", 1, 6), IdentType("int"))>>,
                    <<VarStatementNoKeyword(At("q", 2, 2),
                          InfixExpression(At("p", 2, 7), "+", IntLiteral("1")))>>),
      ConstStatement(At("r", 3, 5), Nil,
                     InfixExpression(FuncCall(At("f", 3, 9), <<FloatLiteral("1.5")>>),
                                     "+", IntLiteral("1"))),
      TypeStatement(Token(4, 5, "type"), At("T", 4, 5), IdentType("int"))>>

\* 1: egg x = 1 + 2.5
\* 2: if x { egg y; egg y }
\* 3: fun g(p int, p int) { }
\* 4: egg z = x
NestDoc ==
    <<VarStatement(At("x", 1, 4), Nil,
                   InfixExpression(IntLiteral("1"), "+", FloatLiteral("2.5"))),
      IfStatement(At("x", 2, 3),
                  <<VarStatement(At("y", 2, 11), Nil, Nil),
                    VarStatement(At("y", 2, 18), Nil, Nil)>>, <<>>),
      FuncStatement(At("g", 3, 4),
                    <<Param(At("p", 3, 6), IdentType("int")),
                      Param(At("p", 3, 13), IdentType("int"))>>, <<>>),
      VarStatement(At("z", 4, 4), Nil, At("x", 4, 8))>>

Docs == <<LoopDoc, DupDoc, FunDoc, NestDoc>>

Texts == 0..Len(Docs)

\* lexer.New, parser.New, ParseProgram: the statements of a text.
ParseProgram(text) == Docs[text]

\* p.Errors(): the documents above parse without error.
ParseErrors(text) == <<>>

URIs == {"file:a", "file:b"}

(***************************************************************************)
(* server.go: the request loop and the handlers.                           *)
(*                                                                         *)
(* A request id, a pointer to int, is <<>> when absent and <<n>> when present.  A      *)
(* message carries the fields its handler unmarshals.                      *)
(***************************************************************************)
NoId == <<>>
Null == [k |-> "null"]

Message(method, id, uri, pos, changes) ==
    [method |-> method, id |-> id, uri |-> uri, pos |-> pos, changes |-> changes]

Idle == Message("", NoId, "", Position(0, 0), <<>>)

NoLocal == [ident |-> Nil, sym |-> Nil]

Ids == {NoId, <<1>>}

Messages ==
    {Message(m, id, "", Position(0, 0), <<>>) :
        m \in {"initialize", "initialized", "shutdown", "exit", "textDocument/didSave"},
        id \in Ids}
    \cup {Message("textDocument/didOpen", NoId, u, Position(0, 0), <<t>>) :
            u \in URIs, t \in Texts}
    \cup {Message("textDocument/didChange", NoId, u, Position(0, 0), c) :
            u \in URIs, c \in {<<>>} \cup {<<t>> : t \in Texts}}
    \cup {Message(m, id, u, Position(l, c), <<>>) :
            m \in {"textDocument/hover", "textDocument/definition"},
            id \in Ids, u \in URIs, l \in 0..MaxLine, c \in 0..MaxChar}

\* sendResponse: nothing is written for a nil id.
sendResponse(id, result) ==
    IF id = NoId THEN <<>>
    ELSE <<[kind |-> "response", id |-> id, result |-> result]>>

\* tokenRange
tokenRange(pe) ==
    LET startCol == pe.Column - 1
        length == IF Len(pe.Token.Literal) = 0 THEN 1 ELSE Len(pe.Token.Literal)
    IN  [Start |-> Position(pe.Line - 1, startCol),
         End |-> Position(pe.Line - 1, startCol + length)]

\* publishDiagnostics: one notification with a diagnostic per parse error.
publishDiagnostics(uri, text) ==
    LET errs == IF text = 0 THEN <<>> ELSE ParseErrors(text)
    IN  <<[kind |-> "notification", method |-> "textDocument/publishDiagnostics",
           uri |-> uri,
           diagnostics |-> [i \in 1..Len(errs) |->
                               [Range |-> tokenRange(errs[i]), Severity |-> 1,
                                Message |-> errs[i].Message]]]>>

RECURSIVE typeNodeToString(_)
typeNodeToString(t) ==
    IF t = Nil THEN "unknown"
    ELSE CASE t.k = "IdentType" -> t.Name
           [] t.k = "ArrayType" -> "[]" \o typeNodeToString(t.Elem)
           [] t.k = "StructType" -> "struct"
           [] OTHER -> "unknown"

\* The markdown code fence, three backquotes in the source, written with a
\* character a string can hold here.
Fence == "~~~"

hoverFromSymbol(sym) ==
    LET typeStr == typeNodeToString(sym.Type)
    IN  CASE sym.Kind = SymVar -> Fence \o "ayla\negg " \o sym.Name \o " " \o typeStr \o "\n" \o Fence
          [] sym.Kind = SymConst -> Fence \o "ayla\nrock " \o sym.Name \o " " \o typeStr \o "\n" \o Fence
          [] sym.Kind = SymFunc -> Fence \o "ayla\nfun " \o sym.Name \o " (...)\n" \o Fence
          [] sym.Kind = SymParam ->
                Fence \o "ayla\nparam " \o sym.Name \o " " \o typeStr \o "\n" \o Fence
          [] sym.Kind = SymStructField ->
                Fence \o "ayla\nfield " \o sym.Name \o " " \o typeStr \o "\n" \o Fence
          [] sym.Kind = SymType -> Fence \o "ayla\ntype " \o sym.Name \o "\n" \o Fence
          [] sym.Kind = SymUserType ->
                Fence \o "ayla\ntype " \o sym.Name \o " " \o typeStr \o "\n" \o Fence
          [] OTHER -> sym.Name

HoverResult(value) == [k |-> "hover", kind |-> "markdown", value |-> value]

Location(uri, line, startChar, endChar) ==
    [k |-> "location", uri |-> uri,
     range |-> [Start |-> Position(line, startChar), End |-> Position(line, endChar)]]

InitServer ==
    /\ documents = [u \in URIs |-> 0]
    /\ pc = "read"
    /\ req = Idle
    /\ out = <<>>
    /\ crashed = FALSE
    /\ latest = [u \in URIs |-> 0]
    /\ local = NoLocal
    /\ scopes = <<>>
    /\ lastOp = NoOp
    /\ program = <<>>
    /\ table = <<>>
    /\ expr = Nil
    /\ inferred = Nil
    /\ inferScopes = <<>>

Others == <<scopeVars, buildVars, inferVars>>

\* Run: readMessage returns the next message.
Read ==
    /\ pc = "read"
    /\ \E msg \in Messages :
          /\ req' = msg
          /\ latest' = IF /\ msg.method \in {"textDocument/didOpen",
                                              "textDocument/didChange"}
                           /\ Len(msg.changes) > 0
                        THEN [latest EXCEPT ![msg.uri] = msg.changes[1]]
                        ELSE latest
    /\ pc' = "handle"
    /\ UNCHANGED <<documents, out, crashed, local, Others>>

\* Run: handleMessage has returned and the loop comes round; what the
\* handler held is gone.
Loop ==
    /\ pc = "handled"
    /\ pc' = "read"
    /\ req' = Idle
    /\ out' = <<>>
    /\ local' = NoLocal
    /\ UNCHANGED <<documents, crashed, latest, Others>>

Handling(method) == pc = "handle" /\ req.method = method

HandleInitialize ==
    /\ Handling("initialize")
    /\ out' = sendResponse(req.id, [k |-> "capabilities", textDocumentSync |-> 1,
                                    definitionProvider |-> TRUE, hoverProvider |-> TRUE])
    /\ pc' = "handled"
    /\ UNCHANGED <<documents, req, crashed, local, latest, Others>>

\* "initialized" returns at once; a method without a case does nothing.
HandleIgnored ==
    /\ pc = "handle"
    /\ req.method \in {"initialized", "textDocument/didSave"}
    /\ pc' = "handled"
    /\ UNCHANGED <<documents, req, out, crashed, local, latest, Others>>

HandleShutdown ==
    /\ Handling("shutdown")
    /\ out' = sendResponse(req.id, Null)
    /\ pc' = "handled"
    /\ UNCHANGED <<documents, req, crashed, local, latest, Others>>

\* os.Exit(0)
HandleExit ==
    /\ Handling("exit")
    /\ pc' = "exited"
    /\ UNCHANGED <<documents, req, out, crashed, local, latest, Others>>

HandleDidOpen ==
    /\ Handling("textDocument/didOpen")
    /\ documents' = [documents EXCEPT ![req.uri] = req.changes[1]]
    /\ out' = publishDiagnostics(req.uri, req.changes[1])
    /\ pc' = "handled"
    /\ UNCHANGED <<req, crashed, local, latest, Others>>

HandleDidChangeEveryUri ==
    /\ Handling("textDocument/didChange")
    /\ IF Len(req.changes) = 0
       THEN /\ crashed' = TRUE
            /\ pc' = "crashed"
            /\ UNCHANGED <<documents, out>>
       ELSE /\ documents' = [u \in URIs |-> req.changes[1]]
            /\ out' = publishDiagnostics(req.uri, req.changes[1])
            /\ pc' = "handled"
            /\ UNCHANGED crashed
    /\ UNCHANGED <<req, local, latest, Others>>

\* params.ContentChanges[0] panics on an empty list, and nothing recovers.
HandleDidChange ==
    /\ Handling("textDocument/didChange")
    /\ IF Len(req.changes) = 0
       THEN /\ crashed' = TRUE
            /\ pc' = "crashed"
            /\ UNCHANGED <<documents, out>>
       ELSE /\ documents' = [documents EXCEPT ![req.uri] = req.changes[1]]
            /\ out' = publishDiagnostics(req.uri, req.changes[1])
            /\ pc' = "handled"
            /\ UNCHANGED crashed
    /\ UNCHANGED <<req, local, latest, Others>>

\* What handleHover computes: the locals ident and sym and what it writes.
hover(text, pos, id) ==
    IF text = 0 THEN [ident |-> Nil, sym |-> Nil, out |-> sendResponse(id, Null)]
    ELSE LET prog == ParseProgram(text)
             rootScopes == BuildSymbols(prog)
             ident == findIdentAt(prog, pos)
         IN  IF ident = Nil
             THEN [ident |-> Nil, sym |-> Nil, out |-> sendResponse(id, Null)]
             ELSE LET sym == Resolve(rootScopes, 1, ident.Value)
                  IN  IF sym = Nil
                      THEN [ident |-> ident, sym |-> Nil, out |-> sendResponse(id, Null)]
                      ELSE LET inferred0 ==
                                   IF sym.Type = Nil /\ sym.Value # Nil
                                   THEN inferExprType(rootScopes, 1, sym.Value)
                                   ELSE Nil
                               sym1 == IF inferred0 # Nil
                                       THEN [sym EXCEPT !.Type = inferred0]
                                       ELSE sym
                           IN  [ident |-> ident, sym |-> sym1,
                                out |-> sendResponse(id,
                                            HoverResult(hoverFromSymbol(sym1)))]

HandleHover ==
    /\ Handling("textDocument/hover")
    /\ LET r == hover(documents[req.uri], req.pos, req.id)
       IN  /\ out' = r.out
           /\ local' = [ident |-> r.ident, sym |-> r.sym]
    /\ pc' = "handled"
    /\ UNCHANGED <<documents, req, crashed, latest, Others>>

\* What handleDefinition computes.  An unresolved identifier returns without
\* a response; a symbol without Ident (a built-in type) makes sym.Ident.Pos()
\* dereference nil, a panic nothing recovers.
definition(text, pos, id, uri) ==
    IF text = 0
    THEN [ident |-> Nil, sym |-> Nil, out |-> sendResponse(id, Null), panic |-> FALSE]
    ELSE LET prog == ParseProgram(text)
             rootScopes == BuildSymbols(prog)
             ident == findIdentAt(prog, pos)
         IN  IF ident = Nil
             THEN [ident |-> Nil, sym |-> Nil, out |-> sendResponse(id, Null),
                   panic |-> FALSE]
             ELSE LET sym == Resolve(rootScopes, 1, ident.Value)
                  IN  IF sym = Nil
                      THEN [ident |-> ident, sym |-> Nil, out |-> <<>>, panic |-> FALSE]
                      ELSE IF sym.Ident = Nil
                      THEN [ident |-> ident, sym |-> sym, out |-> <<>>, panic |-> TRUE]
                      ELSE LET line == Pos(sym.Ident)[1] - 1
                               col == Pos(sym.Ident)[2] - 1
                           IN  [ident |-> ident, sym |-> sym, panic |-> FALSE,
                                out |-> sendResponse(id,
                                            Location(uri, line, col,
                                                     col + Len(ident.Value)))]

HandleDefinition ==
    /\ Handling("textDocument/definition")
    /\ LET r == definition(documents[req.uri], req.pos, req.id, req.uri)
       IN  /\ out' = r.out
           /\ local' = [ident |-> r.ident, sym |-> r.sym]
           /\ crashed' = r.panic
           /\ pc' = IF r.panic THEN "crashed" ELSE "handled"
    /\ UNCHANGED <<documents, req, latest, Others>>

Next ==
    \/ Read
    \/ HandleInitialize
    \/ HandleIgnored
    \/ HandleDidOpen
    \/ HandleDidChange
    \/ HandleDefinition
    \/ HandleHover
    \/ HandleShutdown
    \/ HandleExit
    \/ Loop

(***************************************************************************)
(* Claims about the scope table (checked under SpecScope).                 *)
(***************************************************************************)
\* The scopes on the parent chain of s, s first.
RECURSIVE Chain(_, _)
Chain(h, s) == IF s = 0 THEN <<>> ELSE <<s>> \o Chain(h, h[s].Parent)

\* The binding of name in the first scope of the chain of s that has one.
Nearest(h, s, name) ==
    LET c == Chain(h, s)
        hits == {i \in 1..Len(c) : name \in DOMAIN h[c[i]].Symbols}
    IN  IF hits = {} THEN Nil
        ELSE h[c[CHOOSE i \in hits : \A j \in hits : i <= j]].Symbols[name]

\* C6: Define fails exactly when the name is already bound in the scope it is
\* called on, and then no scope's bindings change; otherwise (also when an
\* ancestor binds the name) it succeeds, binds the name to the symbol in that
\* scope and changes nothing else.
C6_DefineDuplicateFails ==
    [][lastOp'.op = "Define" =>
        LET s == lastOp'.scope
            n == lastOp'.name
        IN  IF n \in DOMAIN scopes[s].Symbols
            THEN lastOp'.panic /\ scopes' = scopes
            ELSE /\ ~lastOp'.panic
                 /\ Len(scopes') = Len(scopes)
                 /\ DOMAIN scopes'[s].Symbols = DOMAIN scopes[s].Symbols \cup {n}
                 /\ scopes'[s].Symbols[n] = lastOp'.sym
                 /\ scopes'[s].Parent = scopes[s].Parent
                 /\ \A m \in DOMAIN scopes[s].Symbols :
                        scopes'[s].Symbols[m] = scopes[s].Symbols[m]
                 /\ \A t \in 1..Len(scopes) : t # s => scopes'[t] = scopes[t]]_vars

\* A Define that failed on a name the scope binds to another symbol, which
\* is still the one bound.
C6_Witness ==
    /\ lastOp.op = "Define"
    /\ lastOp.panic
    /\ scopes[lastOp.scope].Symbols[lastOp.name] # lastOp.sym

\* A Define that succeeded on a name the parent scope binds.
C6_WitnessShadow ==
    /\ lastOp.op = "Define"
    /\ ~lastOp.panic
    /\ scopes[lastOp.scope].Parent # 0
    /\ lastOp.name \in DOMAIN scopes[scopes[lastOp.scope].Parent].Symbols

\* C7: Resolve(scope, name) is the binding of name in the nearest scope of
\* the parent chain from scope, scope itself first, and nil when no scope
\* of the chain binds name: for every scope and name, and for the Resolve
\* just made.
C7_ResolveNearest ==
    /\ \A s \in 1..Len(scopes), n \in ScopeNames :
            Resolve(scopes, s, n) = Nearest(scopes, s, n)
    /\ lastOp.op = "Resolve" =>
            lastOp.result = Nearest(scopes, lastOp.scope, lastOp.name)

\* x bound in an outer scope and re-bound to another symbol in an inner one:
\* Resolve from the inner scope has just returned the inner symbol, and from
\* the outer scope the outer symbol is what resolves.
C7_Witness ==
    /\ lastOp.op = "Resolve"
    /\ scopes[lastOp.scope].Parent # 0
    /\ LET inner == lastOp.scope
           outer == scopes[inner].Parent
           n == lastOp.name
       IN  /\ n \in DOMAIN scopes[inner].Symbols
           /\ n \in DOMAIN scopes[outer].Symbols
           /\ scopes[inner].Symbols[n] # scopes[outer].Symbols[n]
           /\ lastOp.result = scopes[inner].Symbols[n]
           /\ Resolve(scopes, outer, n) = scopes[outer].Symbols[n]

(***************************************************************************)
(* Claims about the symbol builder (checked under SpecBuild).              *)
(***************************************************************************)
\* The identifiers a statement declares in the scope it stands in.
DeclIdents(s) ==
    IF s.k \in {"VarStatement", "VarStatementNoKeyword", "ConstStatement",
                "FuncStatement", "TypeStatement"}
    THEN {s.Name}
    ELSE IF s.k \in {"MultiVarStatement", "MultiVarStatementNoKeyword",
                     "MultiConstStatement"}
    THEN {s.Names[i] : i \in 1..Len(s.Names)}
    ELSE {}

DirectDecls(stmts) == UNION {DeclIdents(stmts[i]) : i \in 1..Len(stmts)}

\* The declarations that stand directly in the block a scope was opened for.
BlockDecls(stmts, sc) ==
    CASE sc.Role = "Root" -> DirectDecls(stmts)
      [] sc.Role = "Func" ->
            {sc.Node.Params[i].Name : i \in 1..Len(sc.Node.Params)}
            \cup DirectDecls(sc.Node.Body)
      [] sc.Role = "For" ->
            (IF sc.Node.Init = Nil THEN {} ELSE DeclIdents(sc.Node.Init))
            \cup DirectDecls(sc.Node.Body)
      [] sc.Role = "While" -> DirectDecls(sc.Node.Body)
      [] sc.Role = "Consequence" -> DirectDecls(sc.Node.Consequence)
      [] sc.Role = "Alternative" -> DirectDecls(sc.Node.Alternative)

\* Every declaration of a statement sequence, nested ones included.
RECURSIVE AllDecls(_)
DeclsIn(s) ==
    DeclIdents(s) \cup
    CASE s.k = "FuncStatement" ->
            {s.Params[i].Name : i \in 1..Len(s.Params)} \cup AllDecls(s.Body)
      [] s.k = "ForStatement" ->
            (IF s.Init = Nil THEN {} ELSE DeclIdents(s.Init)) \cup AllDecls(s.Body)
      [] s.k = "WhileStatement" -> AllDecls(s.Body)
      [] s.k = "IfStatement" -> AllDecls(s.Consequence) \cup AllDecls(s.Alternative)
      [] OTHER -> {}
AllDecls(stmts) == UNION {DeclsIn(stmts[i]) : i \in 1..Len(stmts)}

Names(idents) == {id.Value : id \in idents}

BuiltinNames == {BuiltinTypes[i] : i \in 1..Len(BuiltinTypes)}

\* The statement sequence with every nested block emptied: what is left
\* declares in the root scope only (parameters kept: a duplicate parameter
\* ends the build of the scope the function stands in).
Flattened(stmts) ==
    [i \in 1..Len(stmts) |->
        LET s == stmts[i]
        IN  CASE s.k = "FuncStatement" -> [s EXCEPT !.Body = <<>>]
              [] s.k = "ForStatement" -> [s EXCEPT !.Init = Nil, !.Body = <<>>]
              [] s.k = "WhileStatement" -> [s EXCEPT !.Body = <<>>]
              [] s.k = "IfStatement" -> [s EXCEPT !.Consequence = <<>>, !.Alternative = <<>>]
              [] OTHER -> s]

\* Names declared in the branch block and nowhere else in the program.
SolelyIn(block, stmts) ==
    {n \in Names(AllDecls(block)) \ BuiltinNames :
        \A id \in AllDecls(stmts) : id.Value = n => id \in AllDecls(block)}

\* C8: after BuildSymbols, a binding of a scope comes from a declaration
\* standing directly in the block the scope was opened for (so a nested
\* declaration is bound in its own block's scope only); a name declared
\* solely in one branch of an if resolves neither from the other branch's
\* scope nor from the enclosing scope; and the root scope's bindings are
\* those the same statements give with every nested block emptied.
C8_ScopeIsolation ==
    table # <<>> =>
        /\ \A s \in 1..Len(table) : \A n \in DOMAIN table[s].Symbols :
              LET sym == table[s].Symbols[n]
              IN  IF sym.Ident = Nil THEN s = 1 /\ n \in BuiltinNames
                  ELSE sym.Ident \in BlockDecls(program, table[s]) /\ sym.Ident.Value = n
        /\ \A s, t \in 1..Len(table) :
              (/\ table[s].Role = "Consequence"
               /\ table[t].Role = "Alternative"
               /\ table[s].Node = table[t].Node
               /\ table[s].Parent = table[t].Parent) =>
                  /\ \A n \in SolelyIn(table[s].Node.Consequence, program) :
                        /\ Resolve(table, t, n) = Nil
                        /\ Resolve(table, table[s].Parent, n) = Nil
                  /\ \A n \in SolelyIn(table[s].Node.Alternative, program) :
                        /\ Resolve(table, s, n) = Nil
                        /\ Resolve(table, table[s].Parent, n) = Nil
        /\ table[1].Symbols = BuildSymbols(Flattened(program))[1].Symbols

\* An if whose branches each bound a name the other branch and the
\* enclosing scope do not resolve.
C8_Witness ==
    /\ table # <<>>
    /\ \E s, t \in 1..Len(table) :
          /\ table[s].Role = "Consequence"
          /\ table[t].Role = "Alternative"
          /\ table[s].Node = table[t].Node
          /\ \E n \in DOMAIN table[s].Symbols, m \in DOMAIN table[t].Symbols :
                /\ n \in SolelyIn(table[s].Node.Consequence, program)
                /\ m \in SolelyIn(table[s].Node.Alternative, program)
                /\ Resolve(table, s, n) # Nil
                /\ Resolve(table, t, n) = Nil
                /\ Resolve(table, s, m) = Nil
                /\ Resolve(table, 1, n) = Nil

Builtin(name) == Symbol(SymType, name, Nil, Nil, Nil)

\* C9 as claimed: after BuildSymbols, a built-in type name resolves to its
\* built-in symbol from the root scope and from every nested scope.
C9_BuiltinsFromEveryScope ==
    table # <<>> =>
        \A s \in 1..Len(table), b \in BuiltinNames : Resolve(table, s, b) = Builtin(b)

\* C9 as amended: the root scope binds every built-in type name to its
\* built-in symbol whatever the program declares, so the name resolves to
\* it from the root scope and from every nested scope with no scope below
\* the root on its chain that declares the name; a nested scope that
\* declares the name shadows it, for itself and the scopes below it.
C9_BuiltinsInRoot ==
    table # <<>> =>
        \A b \in BuiltinNames :
            /\ b \in DOMAIN table[1].Symbols
            /\ table[1].Symbols[b] = Builtin(b)
            /\ \A s \in 1..Len(table) :
                  LET below == {Chain(table, s)[i] : i \in 1..Len(Chain(table, s))} \ {1}
                  IN  IF \A t \in below : b \notin DOMAIN table[t].Symbols
                      THEN Resolve(table, s, b) = Builtin(b)
                      ELSE /\ Resolve(table, s, b).Kind # SymType
                           /\ Resolve(table, s, b).Ident \in AllDecls(program)

\* A program that declares int at its top level, built: int is still the
\* built-in symbol in the root scope.
C9_Witness ==
    /\ table # <<>>
    /\ "int" \in Names(DirectDecls(program))
    /\ Resolve(table, 1, "int") = Builtin("int")

(***************************************************************************)
(* Claims about the queries.  They read the state between the handler's    *)
(* return and the next read: req is the request, out what was written for  *)
(* it, local the identifier and the symbol the handler found.              *)
(***************************************************************************)
Query == req.method \in {"textDocument/hover", "textDocument/definition"}
Answered == pc \in {"handled", "crashed"} /\ Query
Doc == documents[req.uri]
HasResult ==
    /\ Len(out) = 1
    /\ out[1].kind = "response"
    /\ out[1].result.k \in {"hover", "location"}

\* The nodes directly under a node that can hold identifiers.
Kids(n) ==
    IF n = Nil THEN <<>>
    ELSE CASE n.k \in {"VarStatement", "ConstStatement", "VarStatementNoKeyword",
                       "AssignmentStatement"} -> <<n.Name, n.Value>>
           [] n.k \in {"MultiVarStatement", "MultiConstStatement",
                       "MultiVarStatementNoKeyword", "MultiAssignmentStatement"} ->
                n.Names \o <<n.Value>>
           [] n.k \in {"Param", "TypeStatement"} -> <<n.Name>>
           [] n.k = "FuncStatement" -> <<n.Name>> \o n.Params \o n.Body
           [] n.k = "ForStatement" -> <<n.Init, n.Condition, n.Post>> \o n.Body
           [] n.k = "WhileStatement" -> <<n.Condition>> \o n.Body
           [] n.k = "IfStatement" ->
                <<n.Condition>> \o n.Consequence \o n.Alternative
           [] n.k = "ExpressionStatement" -> <<n.Expression>>
           [] n.k = "IndexAssignmentStatement" -> <<n.Left, n.Index, n.Value>>
           [] n.k = "SpawnStatement" -> n.Body
           [] n.k = "ArrayLiteral" -> n.Elements
           [] n.k = "InfixExpression" -> <<n.Left, n.Right>>
           [] n.k = "PrefixExpression" -> <<n.Right>>
           [] n.k = "IndexExpression" -> <<n.Left, n.Index>>
           [] n.k = "MemberExpression" -> <<n.Left, n.Field>>
           [] n.k = "FuncCall" -> <<n.Name>> \o n.Args
           [] n.k = "StructLiteral" -> <<n.TypeName>> \o n.Fields
           [] OTHER -> <<>>

\* Every identifier token of a node, and of a statement list.
RECURSIVE IdentsOf(_)
IdentsOf(n) ==
    IF n = Nil THEN {}
    ELSE IF n.k = "Identifier" THEN {n}
    ELSE UNION {IdentsOf(Kids(n)[i]) : i \in 1..Len(Kids(n))}

IdentsIn(stmts) == UNION {IdentsOf(stmts[i]) : i \in 1..Len(stmts)}

\* The token's text covers the position: zero-based characters
\* [Column - 1 - length, Column - 1) of zero-based line Line - 1.
Covers(tok, pos) ==
    /\ pos.Line = tok.Line - 1
    /\ pos.Character >= tok.Column - 1 - Len(tok.Literal)
    /\ pos.Character < tok.Column - 1

IdentsUnder(pos) == {u \in IdentsIn(Docs[Doc]) : Covers(u.Token, pos)}

\* The identifiers that declare a name somewhere in a statement list.
RECURSIVE DeclaringIn(_)
DeclaringOf(n) ==
    IF n = Nil THEN {}
    ELSE CASE n.k \in {"VarStatement", "ConstStatement", "VarStatementNoKeyword",
                       "Param", "TypeStatement"} -> {n.Name}
           [] n.k \in {"MultiVarStatement", "MultiConstStatement",
                       "MultiVarStatementNoKeyword"} ->
                {n.Names[i] : i \in 1..Len(n.Names)}
           [] n.k = "FuncStatement" ->
                {n.Name} \cup {n.Params[i].Name : i \in 1..Len(n.Params)}
                         \cup DeclaringIn(n.Body)
           [] n.k = "ForStatement" -> DeclaringIn(<<n.Init>> \o n.Body)
           [] n.k \in {"WhileStatement", "SpawnStatement"} -> DeclaringIn(n.Body)
           [] n.k = "IfStatement" -> DeclaringIn(n.Consequence \o n.Alternative)
           [] OTHER -> {}

DeclaringIn(stmts) == UNION {DeclaringOf(stmts[i]) : i \in 1..Len(stmts)}

\* The for loops at the top of the document whose initializer declares a
\* variable declared nowhere else in the document.
LoopsOf(stmts) ==
    {i \in 1..Len(stmts) :
        /\ stmts[i].k = "ForStatement"
        /\ stmts[i].Init # Nil
        /\ stmts[i].Init.k = "VarStatement"
        /\ \A d \in DeclaringIn(stmts) :
              d.Value = stmts[i].Init.Name.Value => d = stmts[i].Init.Name}

\* C1 (as claimed; the code differs): a hover or definition query on a use
\* of a for loop's own variable inside the loop body is answered with the
\* loop's symbol, a non-empty result, and a query on a use of it after the
\* loop is answered with no result.
C1_LoopVariableResolvesInBody ==
    (Answered /\ req.id # NoId /\ Doc # 0) =>
        \A i \in LoopsOf(Docs[Doc]) :
            LET loop == Docs[Doc][i]
                v == loop.Init.Name
            IN  /\ \A u \in IdentsIn(loop.Body) :
                      (u.Value = v.Value /\ Covers(u.Token, req.pos)) =>
                          /\ HasResult
                          /\ local.sym # Nil
                          /\ local.sym.Ident = v
                /\ \A u \in IdentsIn(SubSeq(Docs[Doc], i + 1, Len(Docs[Doc]))) :
                      (u.Value = v.Value /\ Covers(u.Token, req.pos)) => ~HasResult

\* The build of the document recovered a panic in some scope; in these
\* documents the only panic is a name bound twice in one scope.
HasDuplicate(text) ==
    \E i \in 1..Len(BuildSymbols(Docs[text])) : BuildSymbols(Docs[text])[i].Recovered

\* The names a statement binds in the scope it stands in, in order.
BindsHere(s) ==
    CASE s.k \in {"VarStatement", "VarStatementNoKeyword", "ConstStatement",
                  "FuncStatement", "TypeStatement"} -> <<s.Name.Value>>
      [] s.k \in {"MultiVarStatement", "MultiVarStatementNoKeyword",
                  "MultiConstStatement"} -> [i \in 1..Len(s.Names) |-> s.Names[i].Value]
      [] OTHER -> <<>>

RepeatsParam(s) ==
    /\ s.k = "FuncStatement"
    /\ \E i, j \in 1..Len(s.Params) : i < j /\ s.Params[i].Name.Value = s.Params[j].Name.Value

\* Going through the statement list of a scope from statement i on, seen
\* being bound already: the names bound in the scope at the end, and the
\* statement the list ends at.  The list ends at the first name that is bound
\* already and at a function that repeats a parameter; a duplicate inside a
\* nested block does not end it.
RECURSIVE BoundFrom(_, _, _)
BoundFrom(stmts, i, seen) ==
    IF i > Len(stmts) THEN [bound |-> seen, last |-> Len(stmts)]
    ELSE LET names == BindsHere(stmts[i])
             dup == {j \in 1..Len(names) :
                        names[j] \in seen \cup {names[m] : m \in 1..(j - 1)}}
             first == IF dup = {} THEN Len(names) + 1
                      ELSE CHOOSE j \in dup : \A m \in dup : j <= m
             now == seen \cup {names[m] : m \in 1..(first - 1)}
         IN  IF dup # {} \/ RepeatsParam(stmts[i]) THEN [bound |-> now, last |-> i]
             ELSE BoundFrom(stmts, i + 1, now)

\* The names the top-level statements bound in the root scope.
RootBound(stmts) == BoundFrom(stmts, 1, BuiltinNames).bound \ BuiltinNames

\* The names declared, at any depth, by the statements the root's list got to.
DeclaredInTime(stmts) ==
    Names(DeclaringIn(SubSeq(stmts, 1, BoundFrom(stmts, 1, BuiltinNames).last)))

\* C2 (as claimed; refuted): when the build of a document meets a name bound
\* twice in one scope, no hover or definition query on the document has a
\* result, at any position.
C2_DuplicateAbortsWholeBuild ==
    (Answered /\ req.id # NoId /\ Doc # 0 /\ HasDuplicate(Doc)) => ~HasResult

\* C2 (amended): a duplicate ends the statement list of the scope it is met
\* in and nothing else.  On a document whose build meets a duplicate, a
\* query on an identifier whose name a top-level statement bound before the
\* root's list ended has a result, and a query on an identifier whose name
\* is declared only after the statement the root's list ended at has none.
C2_DuplicateEndsItsListOnly ==
    (/\ Answered
     /\ req.id # NoId
     /\ Doc # 0
     /\ HasDuplicate(Doc)
     /\ local.ident # Nil
     /\ local.ident.Value \notin BuiltinNames) =>
        /\ local.ident.Value \in RootBound(Docs[Doc]) => HasResult
        /\ local.ident.Value \notin DeclaredInTime(Docs[Doc]) => ~HasResult

\* A query on a document with a duplicate is answered with a result.
C2_Witness ==
    /\ Answered
    /\ req.id # NoId
    /\ Doc # 0
    /\ HasDuplicate(Doc)
    /\ local.ident # Nil
    /\ HasResult
    /\ local.ident.Value \in RootBound(Docs[Doc])

\* C3 (as claimed; the code differs): the position resolver returns the
\* identifier whose token covers the position, whatever statement or
\* expression holds it, and returns not-found at a position no identifier
\* token covers.
C3_PositionLookupTotal ==
    (Answered /\ Doc # 0) =>
        /\ \A u \in IdentsUnder(req.pos) : local.ident = u
        /\ IdentsUnder(req.pos) = {} => local.ident = Nil

\* C4 (as claimed; the code differs): a definition query at a later use of
\* a declared name returns the zero-based range that covers exactly the
\* declaring identifier's text, the span the position resolver uses for
\* that token.
C4_DefinitionRoundTrip ==
    (/\ Answered
     /\ req.method = "textDocument/definition"
     /\ req.id # NoId
     /\ local.ident # Nil
     /\ local.sym # Nil
     /\ local.sym.Ident # Nil
     /\ local.ident # local.sym.Ident) =>
        /\ HasResult
        /\ LET tok == local.sym.Ident.Token
               range == out[1].result.range
           IN  /\ range.Start = Position(tok.Line - 1, tok.Column - 1 - Len(tok.Literal))
               /\ range.End = Position(tok.Line - 1, tok.Column - 1)
               /\ \A c \in range.Start.Character..(range.End.Character - 1) :
                     findIdentAt(Docs[Doc], Position(range.Start.Line, c))
                        = local.sym.Ident

\* C5 (as claimed; the code differs): every hover and definition request
\* that carries an id has exactly one response written for it, with that
\* id, before the next message is read.
C5_EveryQueryAnswered ==
    (Answered /\ req.id # NoId) =>
        /\ Len(out) = 1
        /\ out[1].kind = "response"
        /\ out[1].id = req.id

\* What the handler of the query in hand computes from a text alone: what
\* it writes and the identifier and symbol it found.
Outcome(text) ==
    IF req.method = "textDocument/hover"
    THEN LET r == hover(text, req.pos, req.id)
         IN  [out |-> r.out, ident |-> r.ident, sym |-> r.sym]
    ELSE LET r == definition(text, req.pos, req.id, req.uri)
         IN  [out |-> r.out, ident |-> r.ident, sym |-> r.sym]

\* C12: whatever notifications and queries came before, what a hover or
\* definition request on a URI at a position is answered with is what the
\* handler computes from the position and the text of the last didOpen or
\* didChange notification for that URI: no earlier query, no earlier text
\* of the URI and no notification for another URI has a part in it.
C12_ResultFromLatestTextOnly ==
    Answered =>
        /\ documents[req.uri] = latest[req.uri]
        /\ out = Outcome(latest[req.uri]).out
        /\ local.ident = Outcome(latest[req.uri]).ident
        /\ local.sym = Outcome(latest[req.uri]).sym

\* A hover that inferred a type and stored it on its symbol is answered with
\* a result, on a URI whose text is not the text of the other URI.
C12_Witness ==
    /\ Answered
    /\ HasResult
    /\ req.method = "textDocument/hover"
    /\ local.sym.Value # Nil
    /\ \E u \in URIs : latest[u] \notin {0, latest[req.uri]}

(***************************************************************************)
(* Claims about the inferencer.                                            *)
(***************************************************************************)
\* The shape of a type description: the name of an identifier type, one
\* "[]" in front for every array around it; none for any other description.
RECURSIVE Shape(_)
Shape(t) ==
    IF t = Nil THEN <<>>
    ELSE CASE t.k = "IdentType" -> <<t.Name>>
           [] t.k = "ArrayType" ->
                IF Shape(t.Elem) = <<>> THEN <<>> ELSE <<"[]">> \o Shape(t.Elem)
           [] OTHER -> <<>>

StructurallyEqual(a, b) == Shape(a) # <<>> /\ Shape(a) = Shape(b)

Unknown == Nil

\* C10: for an infix expression inferExprType returns unknown if an operand
\* infers to unknown, else the common type if the operand types are
\* structurally equal, else float for int with float in either order, else
\* unknown; 1 + 2.5 is float, 1 + 2 int, "a" + 1 unknown; and the scope
\* table is what it was before the call.
C10_InfixRules ==
    (inferred # Pending /\ expr.k = "InfixExpression") =>
        LET left == inferExprType(inferScopes, 1, expr.Left)
            right == inferExprType(inferScopes, 1, expr.Right)
        IN  /\ (left = Unknown \/ right = Unknown) => inferred = Unknown
            /\ (left # Unknown /\ right # Unknown /\ StructurallyEqual(left, right)) =>
                  inferred = left /\ inferred = right
            /\ (/\ left # Unknown
                /\ right # Unknown
                /\ ~StructurallyEqual(left, right)
                /\ \/ Shape(left) = <<"int">> /\ Shape(right) = <<"float">>
                   \/ Shape(left) = <<"float">> /\ Shape(right) = <<"int">>) =>
                  inferred = IdentType("float")
            /\ (/\ left # Unknown
                /\ right # Unknown
                /\ ~StructurallyEqual(left, right)
                /\ ~(Shape(left) = <<"int">> /\ Shape(right) = <<"float">>)
                /\ ~(Shape(left) = <<"float">> /\ Shape(right) = <<"int">>)) =>
                  inferred = Unknown
            /\ expr = InfixExpression(IntLiteral("1"), "+", FloatLiteral("2.5")) =>
                  inferred = IdentType("float")
            /\ expr = InfixExpression(IntLiteral("1"), "+", IntLiteral("2")) =>
                  inferred = IdentType("int")
            /\ expr = InfixExpression(StringLiteral("a"), "+", IntLiteral("1")) =>
                  inferred = Unknown
            /\ inferScopes = BuildSymbols(TypingDoc)

\* 1 + 2.5 has been inferred, and promoted.
C10_Witness ==
    /\ expr = InfixExpression(IntLiteral("1"), "+", FloatLiteral("2.5"))
    /\ inferred = IdentType("float")

\* C11: for an array literal inferExprType returns unknown when the literal
\* has no elements, unknown when an element infers to unknown or a later
\* element's type is not structurally identical to the first's, and else
\* array of the first element's type; [1, 2, 3] is array of int, [1, "a"]
\* and [] are unknown.
C11_ArrayHomogeneity ==
    (inferred # Pending /\ expr.k = "ArrayLiteral") =>
        LET n == Len(expr.Elements)
            typeOf(i) == inferExprType(inferScopes, 1, expr.Elements[i])
            anyUnknown == \E i \in 1..n : typeOf(i) = Unknown
            anyDiffers == \E i \in 2..n : ~StructurallyEqual(typeOf(1), typeOf(i))
        IN  /\ n = 0 => inferred = Unknown
            /\ anyUnknown => inferred = Unknown
            /\ (~anyUnknown /\ anyDiffers) => inferred = Unknown
            /\ (n > 0 /\ ~anyUnknown /\ ~anyDiffers) => inferred = ArrayType(typeOf(1))
            /\ expr = ArrayLiteral(<<IntLiteral("1"), IntLiteral("2"), IntLiteral("3")>>) =>
                  inferred = ArrayType(IdentType("int"))
            /\ expr = ArrayLiteral(<<IntLiteral("1"), StringLiteral("a")>>) =>
                  inferred = Unknown
            /\ expr = ArrayLiteral(<<>>) => inferred = Unknown

\* [1, 2, 3] has been inferred to be an array of int.
C11_Witness ==
    /\ expr = ArrayLiteral(<<IntLiteral("1"), IntLiteral("2"), IntLiteral("3")>>)
    /\ inferred = ArrayType(IdentType("int"))

(***************************************************************************)
(* The specifications.  Each run starts with the variables of the other    *)
(* runs at rest and leaves them alone.                                     *)
(***************************************************************************)
InitScopeRun ==
    /\ scopes = <<>>
    /\ lastOp = NoOp
    /\ program = <<>>
    /\ table = <<>>
    /\ expr = Nil
    /\ inferred = Nil
    /\ inferScopes = <<>>
    /\ documents = [u \in URIs |-> 0]
    /\ pc = "off"
    /\ req = Idle
    /\ out = <<>>
    /\ crashed = FALSE
    /\ latest = [u \in URIs |-> 0]
    /\ local = NoLocal

InitBuildRun ==
    /\ \E n \in 1..MaxStmts :
          \E choice \in [1..n -> 1..Len(Statements(1))] : program = ProgramOf(choice)
    /\ table = <<>>
    /\ scopes = <<>>
    /\ lastOp = NoOp
    /\ expr = Nil
    /\ inferred = Nil
    /\ inferScopes = <<>>
    /\ documents = [u \in URIs |-> 0]
    /\ pc = "off"
    /\ req = Idle
    /\ out = <<>>
    /\ crashed = FALSE
    /\ latest = [u \in URIs |-> 0]
    /\ local = NoLocal

InitInferRun ==
    /\ \/ expr \in Exprs(MaxDepth)
       \/ \E n \in 0..MaxElems : \E els \in [1..n -> Elements] : expr = ArrayLiteral(els)
    /\ inferred = Pending
    /\ inferScopes = BuildSymbols(TypingDoc)
    /\ scopes = <<>>
    /\ lastOp = NoOp
    /\ program = <<>>
    /\ table = <<>>
    /\ documents = [u \in URIs |-> 0]
    /\ pc = "off"
    /\ req = Idle
    /\ out = <<>>
    /\ crashed = FALSE
    /\ latest = [u \in URIs |-> 0]
    /\ local = NoLocal

Spec == InitServer /\ [][Next]_vars
SpecInfer == InitInferRun /\ [][NextInfer]_vars
SpecScope == InitScopeRun /\ [][NextScope]_vars
SpecBuild == InitBuildRun /\ [][NextBuild]_vars

====
